---- MODULE Spec2Model ----
(***************************************************************************)
(* Badugi.ai pixel-art board: the validators, the create handler with its  *)
(* remix policy, the view handlers with their views counter, the list, the *)
(* ASCII and SVG renderings, and the initialization of the database at     *)
(* startup, modelled from the PostgreSQL server (src/unnamed/part_000).    *)
(*                                                                         *)
(* JavaScript values are tagged records [t, v]:                            *)
(*   "undef", "null"        v = 0                                          *)
(*   "num"                  v = twice the number (so 3 is 1.5, 4 is 2)     *)
(*   "str"                  v = the sequence of its characters             *)
(*   "arr"                  v = the sequence of its elements               *)
(*   "ints"                 a non-empty array all of whose elements are    *)
(*                          integers, packed: v = the sequence of the      *)
(*                          integers. Arr builds either form, Length and   *)
(*                          At read both.                                  *)
(***************************************************************************)
EXTENDS Integers, Sequences, FiniteSets, TLC

VARIABLES art, reqs, served, call, proc

vars == <<art, reqs, served, call, proc>>

\* ------------------------------------------------------------ bounds
\* Longest palette (apart from the 256/257 cases) tried on validatePalette.
MaxPaletteLen == 2
\* Largest grid dimension and size tried on validatePixels.
MaxDim == 2
\* Most rows the art table holds.
MaxArt == 2
\* Most increments of views, over all rows, applied or about to be.
MaxViews == 2

\* ------------------------------------------------------ JS values
Undef == [t |-> "undef", v |-> 0]
Null == [t |-> "null", v |-> 0]
Str(s) == [t |-> "str", v |-> s]
Num(n) == [t |-> "num", v |-> 2 * n]
Half(h) == [t |-> "num", v |-> h]
\* (s \o <<>> is s, held as a tuple of values instead of a rule to compute them.)
Arr(es) ==
  IF es # <<>> /\ \A i \in 1..Len(es) : es[i].t = "num" /\ es[i].v % 2 = 0
  THEN [t |-> "ints", v |-> [i \in 1..Len(es) |-> es[i].v \div 2] \o <<>>]
  ELSE [t |-> "arr", v |-> es \o <<>>]

\* Array.isArray(x), x.length, x[i - 1]
IsArray(x) == x.t \in {"arr", "ints"}
Length(x) == Len(x.v)
At(x, i) == IF x.t = "ints" THEN Num(x.v[i]) ELSE x.v[i]
IsString(x) == x.t = "str"
NumberIsInteger(x) == x.t = "num" /\ x.v % 2 = 0

\* if (x): undefined, null, "" and 0 are falsy.
Truthy(x) ==
  CASE x.t = "undef" -> FALSE
    [] x.t = "null" -> FALSE
    [] x.t = "str" -> Len(x.v) > 0
    [] x.t = "num" -> x.v # 0
    [] OTHER -> TRUE

DigitChar(d) == <<"0", "1", "2", "3", "4", "5", "6", "7", "8", "9">>[d + 1]

RECURSIVE NatToChars(_)
NatToChars(n) ==
  IF n < 10 THEN <<DigitChar(n)>> ELSE NatToChars(n \div 10) \o <<DigitChar(n % 10)>>

\* Number::toString for the numbers of the model (integers and halves).
NumberToChars(h) ==
  LET a == IF h < 0 THEN -h ELSE h
      body == NatToChars(a \div 2) \o (IF a % 2 = 1 THEN <<".", "5">> ELSE <<>>)
  IN IF h < 0 THEN <<"-">> \o body ELSE body

RECURSIVE JSToString(_)
RECURSIVE JoinFrom(_, _)
\* Array.prototype.join(","): null and undefined elements give "".
JoinFrom(a, i) ==
  IF i > Length(a) THEN <<>>
  ELSE (IF i > 1 THEN <<",">> ELSE <<>>)
       \o (IF At(a, i).t \in {"null", "undef"} THEN <<>> ELSE JSToString(At(a, i)))
       \o JoinFrom(a, i + 1)

\* ECMAScript ToString, which RegExp.prototype.test applies to its argument.
JSToString(x) ==
  CASE x.t = "str" -> x.v
    [] x.t = "num" -> NumberToChars(x.v)
    [] x.t = "null" -> <<"n", "u", "l", "l">>
    [] x.t = "undef" -> <<"u", "n", "d", "e", "f", "i", "n", "e", "d">>
    [] IsArray(x) -> JoinFrom(x, 1)

\* x !== y: primitives by type and value, arrays by identity. The two sides
\* always come from different JSON documents, so two arrays are never
\* the same object.
StrictNotEqual(x, y) ==
  IF IsArray(x) \/ IsArray(y) THEN TRUE ELSE x # y

RECURSIVE JSONRoundTrip(_)
\* JSON.parse(JSON.stringify(x)): undefined inside an array becomes null.
JSONRoundTrip(x) ==
  CASE x.t = "arr" -> Arr([i \in 1..Len(x.v) |-> JSONRoundTrip(x.v[i])])
    [] x.t = "ints" -> x
    [] x.t = "undef" -> Null
    [] OTHER -> x

\* --------------------------------------------------- validation helpers
HexDigits ==
  {"0", "1", "2", "3", "4", "5", "6", "7", "8", "9",
   "A", "B", "C", "D", "E", "F", "a", "b", "c", "d", "e", "f"}

\* /^#[0-9A-Fa-f]{6}$/ on a character sequence.
HexColorRegExp(s) ==
  /\ Len(s) = 7
  /\ s[1] = "#"
  /\ \A i \in 2..7 : s[i] \in HexDigits

\* /^#[0-9A-Fa-f]{6}$/.test(c)
HexColorTest(c) == HexColorRegExp(JSToString(c))

validatePalette(palette) ==
  IF ~IsArray(palette) \/ Length(palette) < 1 \/ Length(palette) > 256
  THEN FALSE
  ELSE \A i \in 1..Length(palette) : HexColorTest(At(palette, i))

PixelOk_OffByOne(p, paletteLength) ==
  ~(~NumberIsInteger(p) \/ p.v < 0 \/ p.v > 2 * paletteLength)

\* The negation of the inner test: !(!Number.isInteger(p) || p < 0 || p >= paletteLength)
PixelOk(p, paletteLength) ==
  ~(~NumberIsInteger(p) \/ p.v < 0 \/ p.v >= 2 * paletteLength)

\* for (const row of pixels) { ... for (const p of row) ... }: false at the
\* first row or entry that fails, true when the loops run to their end.
validatePixels(pixels, size, paletteLength) ==
  IF ~IsArray(pixels) \/ Num(Length(pixels)) # size THEN FALSE
  ELSE \A y \in 1..Length(pixels) :
         LET row == At(pixels, y)
         IN IF ~IsArray(row) \/ Num(Length(row)) # size THEN FALSE
            ELSE \A x \in 1..Length(row) : PixelOk(At(row, x), paletteLength)

\* ------------------------------------------------------------ colours
Black == Str(<<"#", "0", "0", "0", "0", "0", "0">>)
White == Str(<<"#", "F", "F", "F", "F", "F", "F">>)
WhiteLower == Str(<<"#", "f", "f", "f", "f", "f", "f">>)
MixedCase == Str(<<"#", "a", "B", "c", "D", "9", "0">>)
NotHex == Str(<<"#", "G", "G", "G", "G", "G", "G">>)
FiveDigits == Str(<<"#", "F", "F", "F", "F", "F">>)
SevenDigits == Str(<<"#", "F", "F", "F", "F", "F", "F", "F">>)
NoHash == Str(<<"F", "F", "F", "F", "F", "F", "F">>)

\* ------------------------------------------- the validators, called alone
\* The process once ensureDB has resolved: table art exists, dbInitialized is
\* set, initDB ran once. mode is NODE_ENV, startup the position of the
\* ensureDB().then(listen) of the module's last lines.
Ready ==
  [mode |-> "development", dbInitialized |-> TRUE, table |-> TRUE, inits |-> 1,
   listening |-> TRUE, startup |-> "done"]

NoCall == [op |-> "none", args |-> <<>>, pc |-> "returned", ret |-> FALSE]

SeqsUpTo(S, n) == UNION {[1..k -> S] : k \in 0..n}

PaletteElems ==
  {White, WhiteLower, MixedCase, NotHex, FiveDigits, SevenDigits, NoHash,
   Num(123456), Null, Arr(<<>>), Arr(<<White>>), Arr(<<White, Black>>),
   Arr(<<Arr(<<MixedCase>>)>>)}

PaletteInputs ==
  {Arr(es) : es \in SeqsUpTo(PaletteElems, MaxPaletteLen)}
    \cup {Arr([i \in 1..256 |-> White]), Arr([i \in 1..257 |-> White]),
          Arr([i \in 1..256 |-> IF i = 256 THEN NotHex ELSE Black])}
    \cup {White, Null, Undef, Num(1)}

Uniform(r, c, b) == Arr([y \in 1..r |-> Arr([x \in 1..c |-> b])])

PixelCells ==
  {Num(-1), Num(0), Num(1), Num(2), Num(3), Half(1), Half(3), Str(<<"0">>), Null,
   Arr(<<Num(0)>>)}

\* Rows that differ from the uniform row of c entries b in one place: one
\* entry, the length, or not being an array at all.
DefectRows(c, b) ==
  {Arr([x \in 1..c |-> IF x = k THEN q ELSE b]) : k \in 1..c, q \in PixelCells}
    \cup {Arr([x \in 1..(c + 1) |-> b]), Null, Str(<<"0">>)}
    \cup (IF c > 0 THEN {Arr([x \in 1..(c - 1) |-> b])} ELSE {})

PixelInputs ==
  UNION {
    {Uniform(r, c, b)}
      \cup {Arr([y \in 1..r |-> IF y = k THEN row ELSE Arr([x \in 1..c |-> b])]) :
              k \in 1..r, row \in DefectRows(c, b)} :
    r \in 0..MaxDim, c \in 0..MaxDim, b \in {Num(0), Num(1)}}
    \cup {Null, Str(<<"0">>)}

InitValidators ==
  /\ art = <<>>
  /\ reqs = <<>>
  /\ served = <<>>
  /\ proc = Ready
  /\ call \in
       {[op |-> "validatePalette", args |-> <<p>>, pc |-> "called", ret |-> FALSE] :
          p \in PaletteInputs}
         \cup {[op |-> "validatePixels", args |-> <<g, Num(n), l>>, pc |-> "called",
                ret |-> FALSE] :
                 g \in PixelInputs, n \in 0..MaxDim, l \in 0..(MaxPaletteLen + 1)}

ValidatePaletteReturn ==
  /\ call.op = "validatePalette" /\ call.pc = "called"
  /\ call' = [call EXCEPT !.pc = "returned", !.ret = validatePalette(call.args[1])]
  /\ UNCHANGED <<art, reqs, served, proc>>

ValidatePixelsReturn ==
  /\ call.op = "validatePixels" /\ call.pc = "called"
  /\ call' = [call EXCEPT !.pc = "returned",
                          !.ret = validatePixels(call.args[1], call.args[2], call.args[3])]
  /\ UNCHANGED <<art, reqs, served, proc>>

NextValidators == ValidatePaletteReturn \/ ValidatePixelsReturn

SpecValidators == InitValidators /\ [][NextValidators]_vars

\* ------------------------------------------------------------ C1, C2
\* What the claims call a well-formed colour: a string, '#' and 6 hex digits.
IsColorString(c) ==
  /\ c.t = "str"
  /\ Len(c.v) = 7
  /\ c.v[1] = "#"
  /\ \A i \in 2..7 : c.v[i] \in HexDigits

WellFormedPalette(p) ==
  /\ IsArray(p)
  /\ Length(p) >= 1 /\ Length(p) <= 256
  /\ \A i \in 1..Length(p) : IsColorString(At(p, i))

\* C1: validatePalette(palette) is true if and only if palette is a sequence
\* of 1 to 256 elements, each a string of '#' and exactly 6 hex digits.
C1_ValidatePaletteIff ==
  (call.op = "validatePalette" /\ call.pc = "returned")
    => (call.ret <=> WellFormedPalette(call.args[1]))

WellFormedGrid(g, n, l) ==
  /\ IsArray(g)
  /\ Length(g) = n
  /\ \A y \in 1..Length(g) :
       /\ IsArray(At(g, y))
       /\ Length(At(g, y)) = n
       /\ \A x \in 1..Length(At(g, y)) :
            LET p == At(At(g, y), x)
            IN p.t = "num" /\ p.v % 2 = 0 /\ p.v \div 2 >= 0 /\ p.v \div 2 < l

\* C2: validatePixels(grid, size, paletteLength) is true if and only if grid
\* has exactly size rows of exactly size entries, each an integer p with
\* 0 <= p < paletteLength.
C2_ValidatePixelsIff ==
  (call.op = "validatePixels" /\ call.pc = "returned")
    => (call.ret <=> WellFormedGrid(call.args[1], call.args[2].v \div 2, call.args[3]))

\* A size x size grid of integers, rejected only for one entry equal to
\* paletteLength.
C2_Witness ==
  /\ call.op = "validatePixels" /\ call.pc = "returned" /\ ~call.ret
  /\ call.args[2].v >= 2
  /\ WellFormedGrid(call.args[1], call.args[2].v \div 2, call.args[3] + 1)
  /\ \E y \in 1..Length(call.args[1]) : \E x \in 1..Length(At(call.args[1], y)) :
       At(At(call.args[1], y), x) = Num(call.args[3])

\* ------------------------------------------------- the art table, requests
\* art: the rows of table art in insertion order. reqs: the request each
\* slot is serving, with the handler's position (pc), its request body, the
\* row it read, and its response. served[i]: the view requests on row i
\* answered with success so far. proc: the flags of the process (NODE_ENV,
\* dbInitialized, whether table art exists, the executions of initDB).
CreateSlots == {"c1", "c2"}
ViewSlots == {"v1", "v2"}
ReadSlots == {"r1"}
Slots == CreateSlots \cup ViewSlots \cup ReadSlots

\* What a response carries, and two notes on the way to it: compared (the
\* diff loop ran) and stored (the views of the row right after the request's
\* own UPDATE).
NoOut ==
  [changed |-> 0, max |-> 0, compared |-> FALSE, id |-> Null, views |-> 0,
   original |-> Null, remixes |-> <<>>, stored |-> 0, body |-> Null]

Idle ==
  [op |-> "idle", pc |-> "idle", body |-> Undef, row |-> Null, status |-> 0,
   error |-> "", out |-> NoOut]

Body(author, title, size, palette, pixels, remix_of) ==
  [author |-> author, title |-> title, size |-> size, palette |-> palette,
   pixels |-> pixels, remix_of |-> remix_of]

\* uuidv4(): the n-th identifier drawn; no two draws collide.
Uuid(n) == Str(<<"u">> \o NatToChars(n))

\* SELECT * FROM art WHERE id = $1
SelectById(id) == SelectSeq(art, LAMBDA r : r.id = id)

\* res.status(st).json({ success: false, error: e })
Reject(r, st, e) == [r EXCEPT !.pc = "done", !.status = st, !.error = e]

\* palette[pixels[y][x]]
ResolvedColor(palette, pixels, y, x) == At(palette, (At(At(pixels, y), x).v \div 2) + 1)

\* originalColor !== newColor
CellChanged(originalPalette, originalPixels, palette, pixels, y, x) ==
  StrictNotEqual(ResolvedColor(originalPalette, originalPixels, y, x),
                 ResolvedColor(palette, pixels, y, x))

RECURSIVE ChangedInRow(_, _, _, _, _, _, _)
\* for (let x = ...; x < size; x++) of row y, from column x on.
ChangedInRow(originalPalette, originalPixels, palette, pixels, y, x, n) ==
  IF x > n THEN 0
  ELSE (IF CellChanged(originalPalette, originalPixels, palette, pixels, y, x) THEN 1 ELSE 0)
       + ChangedInRow(originalPalette, originalPixels, palette, pixels, y, x + 1, n)

RECURSIVE ChangedFromRow(_, _, _, _, _, _)
\* for (let y = ...; y < size; y++), from row y on.
ChangedFromRow(originalPalette, originalPixels, palette, pixels, y, n) ==
  IF y > n THEN 0
  ELSE ChangedInRow(originalPalette, originalPixels, palette, pixels, y, 1, n)
       + ChangedFromRow(originalPalette, originalPixels, palette, pixels, y + 1, n)

\* changedPixels after the two loops; size is the submission's size.
ChangedPixels(originalPalette, originalPixels, palette, pixels, size) ==
  ChangedFromRow(originalPalette, originalPixels, palette, pixels, 1, size.v \div 2)

\* Math.floor((size * size) * 0.5)
MaxChanges(size) == ((size.v \div 2) * (size.v \div 2)) \div 2

\* !(size !== 32)
SizeOk(size) == ~(size # Num(32))

\* The error of the synchronous checks of POST /api/art, "" when all pass.
ValidationError(b) ==
  IF ~Truthy(b.author) \/ ~IsString(b.author) \/ Len(b.author.v) > 64
    THEN "Invalid author (string, max 64 chars)"
  ELSE IF Truthy(b.title) /\ (~IsString(b.title) \/ Len(b.title.v) > 128)
    THEN "Invalid title (string, max 128 chars)"
  ELSE IF ~SizeOk(b.size)
    THEN "Size must be 32 (32x32 pixels)"
  ELSE IF ~validatePalette(b.palette)
    THEN "Invalid palette. Must be array of 1-256 hex colors (#RRGGBB)"
  ELSE IF ~validatePixels(b.pixels, b.size, Length(b.palette))
    THEN "Invalid pixels. Must be 32x32 array of palette indices"
  ELSE ""

\* POST /api/art up to its first query: the checks of the body, then the
\* SELECT of the remix parent or the INSERT is sent.
CreateValidate(s, b) ==
  /\ reqs[s].pc = "idle"
  /\ LET r == [Idle EXCEPT !.op = "create", !.body = b]
         e == ValidationError(b)
     IN reqs' = [reqs EXCEPT ![s] =
          IF e # "" THEN Reject(r, 400, e)
          ELSE IF Truthy(b.remix_of) THEN [r EXCEPT !.pc = "lookup"]
          ELSE [r EXCEPT !.pc = "insert"]]
  /\ UNCHANGED <<art, served, call, proc>>

\* The remix policy once changedPixels is known: the error, "" when it passes.
RemixError_AtLeast(changedPixels, maxChanges) ==
  IF changedPixels >= maxChanges THEN "Too many pixels changed"
  ELSE IF changedPixels = 0 THEN "No pixels changed"
  ELSE ""

RemixError(changedPixels, maxChanges) ==
  IF changedPixels > maxChanges THEN "Too many pixels changed"
  ELSE IF changedPixels = 0 THEN "No pixels changed"
  ELSE ""

\* CreateLookup without the test of origResult.rows.length: a missing parent
\* goes on to the INSERT.
CreateLookup_SkipMissing(s) ==
  /\ reqs[s].pc = "lookup"
  /\ LET r == reqs[s]
         b == r.body
         origResult == SelectById(b.remix_of)
     IN reqs' = [reqs EXCEPT ![s] =
          IF Len(origResult) = 0
          THEN [r EXCEPT !.pc = "insert"]
          ELSE LET changedPixels == ChangedPixels(origResult[1].palette, origResult[1].pixels,
                                                  b.palette, b.pixels, b.size)
                   e == RemixError(changedPixels, MaxChanges(b.size))
                   c == [r EXCEPT !.out.changed = changedPixels,
                                  !.out.max = MaxChanges(b.size), !.out.compared = TRUE]
               IN IF e # "" THEN Reject(c, 400, e) ELSE [c EXCEPT !.pc = "insert"]]
  /\ UNCHANGED <<art, served, call, proc>>

\* CreateLookup with the row written before the policy is applied.
CreateLookup_InsertFirst(s) ==
  /\ reqs[s].pc = "lookup"
  /\ Len(art) < MaxArt
  /\ LET r == reqs[s]
         b == r.body
         origResult == SelectById(b.remix_of)
     IN IF Len(origResult) = 0
        THEN /\ reqs' = [reqs EXCEPT ![s] = Reject(r, 400, "Original art not found for remix")]
             /\ UNCHANGED <<art, served>>
        ELSE LET changedPixels == ChangedPixels(origResult[1].palette, origResult[1].pixels,
                                                b.palette, b.pixels, b.size)
                 e == RemixError(changedPixels, MaxChanges(b.size))
                 c == [r EXCEPT !.out.changed = changedPixels,
                                !.out.max = MaxChanges(b.size), !.out.compared = TRUE]
             IN /\ art' = Append(art, [id |-> Uuid(Len(art) + 1), author |-> b.author,
                                       title |-> b.title, size |-> b.size,
                                       palette |-> b.palette, pixels |-> b.pixels,
                                       created_at |-> Len(art) + 1, views |-> 0,
                                       remix_of |-> b.remix_of])
                /\ served' = Append(served, 0)
                /\ reqs' = [reqs EXCEPT ![s] =
                     IF e # "" THEN Reject(c, 400, e)
                     ELSE [c EXCEPT !.pc = "done", !.status = 201]]
  /\ UNCHANGED <<call, proc>>

\* The SELECT of the remix parent answers: parent missing, or the diff loop
\* and the policy, then the INSERT is sent.
CreateLookup(s) ==
  /\ reqs[s].pc = "lookup"
  /\ LET r == reqs[s]
         b == r.body
         origResult == SelectById(b.remix_of)
     IN reqs' = [reqs EXCEPT ![s] =
          IF Len(origResult) = 0
          THEN Reject(r, 400, "Original art not found for remix")
          ELSE LET originalRow == origResult[1]
                   changedPixels == ChangedPixels(originalRow.palette, originalRow.pixels,
                                                  b.palette, b.pixels, b.size)
                   maxChanges == MaxChanges(b.size)
                   e == RemixError(changedPixels, maxChanges)
                   c == [r EXCEPT !.out.changed = changedPixels, !.out.max = maxChanges,
                                  !.out.compared = TRUE]
               IN IF e # "" THEN Reject(c, 400, e) ELSE [c EXCEPT !.pc = "insert"]]
  /\ UNCHANGED <<art, served, call, proc>>

\* The row INSERT INTO art stores for body b under identifier id.
NewRow(id, b) ==
  [id |-> id,
   author |-> b.author,
   title |-> IF Truthy(b.title) THEN b.title ELSE Null,
   size |-> b.size,
   palette |-> JSONRoundTrip(b.palette),
   pixels |-> JSONRoundTrip(b.pixels),
   created_at |-> Len(art) + 1,
   views |-> 0,
   remix_of |-> IF Truthy(b.remix_of) THEN b.remix_of ELSE Null]

\* id = uuidv4(), the INSERT executes, 201 is sent. remix_of REFERENCES
\* art(id): the INSERT fails, and the handler answers 500, without the parent.
CreateInsert(s) ==
  /\ reqs[s].pc = "insert"
  /\ Len(art) < MaxArt
  /\ LET r == reqs[s]
         row == NewRow(Uuid(Len(art) + 1), r.body)
     IN IF row.remix_of # Null /\ Len(SelectById(row.remix_of)) = 0
        THEN /\ reqs' = [reqs EXCEPT ![s] = Reject(r, 500, "Database error")]
             /\ UNCHANGED <<art, served>>
        ELSE /\ art' = Append(art, row)
             /\ served' = Append(served, 0)
             /\ reqs' = [reqs EXCEPT ![s] =
                  [r EXCEPT !.pc = "done", !.status = 201, !.out.id = row.id]]
  /\ UNCHANGED <<call, proc>>

\* The response has been sent; the slot takes the next request.
Release(s) ==
  /\ reqs[s].pc = "done"
  /\ reqs' = [reqs EXCEPT ![s] = Idle]
  /\ UNCHANGED <<art, served, call, proc>>

\* const row = result.rows[0], without the palette and the pixels: the view
\* handlers only copy them into the response, and they never change in the
\* table (no statement of the program updates them).
RowRead(r) ==
  [id |-> r.id, author |-> r.author, title |-> r.title, size |-> r.size,
   created_at |-> r.created_at, views |-> r.views, remix_of |-> r.remix_of]

RECURSIVE SumViews(_)
SumViews(i) == IF i = 0 THEN 0 ELSE art[i].views + SumViews(i - 1)

\* The views of all rows together.
ViewsCounted == SumViews(Len(art))

\* GET /api/art/:id (kind "json") and GET /art/:id (kind "html"): the SELECT
\* of the row answers, 404 without it.
ViewSelect(s, kind, id) ==
  /\ reqs[s].pc = "idle"
  /\ ViewsCounted + Cardinality({v \in ViewSlots : reqs[v].pc = "update"}) < MaxViews
  /\ LET r == [Idle EXCEPT !.op = "view", !.body = [kind |-> kind, id |-> id]]
         result == SelectById(id)
     IN reqs' = [reqs EXCEPT ![s] =
          IF Len(result) = 0 THEN Reject(r, 404, "Art not found")
          ELSE [r EXCEPT !.pc = "update", !.row = RowRead(result[1])]]
  /\ UNCHANGED <<art, served, call, proc>>

\* The table after UPDATE art SET views = row.views + 1 WHERE id = $1, the
\* count taken from the row the handler read.
UpdateViews_FromRow(id, row) ==
  [i \in 1..Len(art) |-> IF art[i].id = id THEN [art[i] EXCEPT !.views = row.views + 1]
                         ELSE art[i]]

\* The table after UPDATE art SET views = views - 1 WHERE id = $1.
UpdateViews_Decrement(id, row) ==
  [i \in 1..Len(art) |-> IF art[i].id = id THEN [art[i] EXCEPT !.views = @ - 1] ELSE art[i]]

\* The table after UPDATE art SET views = views + 1 WHERE id = $1. The row
\* the handler read takes no part in it.
UpdateViews(id, row) ==
  [i \in 1..Len(art) |-> IF art[i].id = id THEN [art[i] EXCEPT !.views = @ + 1] ELSE art[i]]

\* The UPDATE executes.
ViewUpdate(s) ==
  /\ reqs[s].pc = "update"
  /\ art' = UpdateViews(reqs[s].body.id, reqs[s].row)
  /\ reqs' = [reqs EXCEPT ![s].pc = IF Truthy(reqs[s].row.remix_of) THEN "orig" ELSE "remixes",
                          ![s].out.stored = art'[reqs[s].row.created_at].views]
  /\ UNCHANGED <<served, call, proc>>

\* SELECT id, author, title FROM art WHERE id = row.remix_of
ViewOrig(s) ==
  /\ reqs[s].pc = "orig"
  /\ LET origResult == SelectById(reqs[s].row.remix_of)
     IN reqs' = [reqs EXCEPT ![s].pc = "remixes",
                             ![s].out.original =
                               IF Len(origResult) > 0
                               THEN [id |-> origResult[1].id, author |-> origResult[1].author,
                                     title |-> origResult[1].title]
                               ELSE Null]
  /\ UNCHANGED <<art, served, call, proc>>

\* The i-th row from the end, for ORDER BY created_at DESC.
Reverse(q) == [i \in 1..Len(q) |-> q[Len(q) + 1 - i]]

\* SELECT id, author, title FROM art WHERE remix_of = $1 ORDER BY created_at
\* DESC LIMIT 10, then the response with views: row.views + 1.
ViewRemixes(s) ==
  /\ reqs[s].pc = "remixes"
  /\ LET row == reqs[s].row
         found == Reverse(SelectSeq(art, LAMBDA r : r.remix_of = row.id))
         remixResult == SubSeq(found, 1, IF Len(found) < 10 THEN Len(found) ELSE 10)
     IN /\ reqs' = [reqs EXCEPT ![s].pc = "done", ![s].status = 200,
                                ![s].out.views = row.views + 1,
                                ![s].out.remixes = [i \in 1..Len(remixResult) |-> remixResult[i].id]]
        /\ served' = [served EXCEPT ![row.created_at] = @ + 1]
  /\ UNCHANGED <<art, call, proc>>

\* ----------------------------------------------------- request bodies
Zeros ==
  <<0, 0, 0, 0, 0, 0, 0, 0, 0, 0, 0, 0, 0, 0, 0, 0, 0, 0, 0, 0, 0, 0, 0,
    0, 0, 0, 0, 0, 0, 0, 0, 0, 0, 0, 0, 0, 0, 0, 0, 0, 0, 0, 0, 0, 0, 0,
    0, 0, 0, 0, 0, 0, 0, 0, 0, 0, 0, 0, 0, 0, 0, 0, 0, 0>>

Ones ==
  <<1, 1, 1, 1, 1, 1, 1, 1, 1, 1, 1, 1, 1, 1, 1, 1, 1, 1, 1, 1, 1, 1, 1,
    1, 1, 1, 1, 1, 1, 1, 1, 1, 1, 1, 1, 1, 1, 1, 1, 1, 1, 1, 1, 1, 1, 1,
    1, 1, 1, 1, 1, 1, 1, 1, 1, 1, 1, 1, 1, 1, 1, 1, 1, 1>>

\* The row of n <= 64 entries whose first j hold index 1 and the rest 0
\* (Arr of those entries, built from Ones and Zeros).
FillRow(n, j) ==
  IF n = 0 THEN Arr(<<>>)
  ELSE [t |-> "ints", v |-> SubSeq(Ones, 1, j) \o SubSeq(Zeros, 1, n - j)]

\* The n x n grid whose first k cells, row by row, hold index 1 and the rest 0.
Fill(n, k) ==
  Arr([y \in 1..n |->
        LET j == k - (y - 1) * n
        IN FillRow(n, IF j < 0 THEN 0 ELSE IF j > n THEN n ELSE j)])

\* Fill(n, 0) with the entry at row y, column x replaced by p.
Poke(n, y, x, p) ==
  Arr([i \in 1..n |->
        IF i = y THEN Arr([j \in 1..n |-> IF j = x THEN p ELSE Num(0)])
        ELSE FillRow(n, 0)])

Sudd == Str(<<"S", "u", "d", "d">>)
Lobster == Str(<<"L", "o", "b", "s", "t", "e", "r">>)
Chars(n) == Str([i \in 1..n |-> "a"] \o <<>>)

P2 == Arr(<<Black, White>>)
PSwap == Arr(<<White, Black>>)
PLower == Arr(<<Black, WhiteLower>>)
\* A palette whose first entry is the array ["#000000"], not a string.
PNested == Arr(<<Arr(<<Black>>), White>>)

Art(palette, pixels, remix_of) == Body(Sudd, Lobster, Num(32), palette, pixels, remix_of)

\* Bodies that pass every check when they declare no parent.
SeedBodies ==
  {Art(P2, Fill(32, 0), Undef),
   Art(PNested, Fill(32, 512), Undef),
   Body(Chars(64), Chars(128), Num(32), P2, Fill(32, 0), Undef),
   Art(P2, Fill(32, 0), Str(<<>>)),
   Body(Sudd, Num(0), Num(32), P2, Fill(32, 0), Null)}

RemixContents ==
  {<<P2, Fill(32, 0)>>, <<P2, Fill(32, 1)>>, <<P2, Fill(32, 512)>>, <<P2, Fill(32, 513)>>,
   <<P2, Fill(32, 1024)>>, <<PSwap, Fill(32, 1024)>>, <<PLower, Fill(32, 1)>>,
   <<PNested, Fill(32, 512)>>}

\* Remixes of the first row, of the second row, and of an id no row has.
RemixBodies ==
  {Art(c[1], c[2], Uuid(1)) : c \in RemixContents}
    \cup {Art(P2, Fill(32, 1), Uuid(2)), Art(PLower, Fill(32, 1), Uuid(2)),
          Art(P2, Fill(32, 1), Uuid(99))}

\* Bodies with one thing wrong.
BadBodies ==
  {Body(a, Lobster, Num(32), P2, Fill(32, 0), Undef) :
     a \in {Undef, Str(<<>>), Num(7), Chars(65)}}
    \cup {Body(Sudd, t, Num(32), P2, Fill(32, 0), Undef) : t \in {Num(5), Chars(129)}}
    \cup {Body(Sudd, Lobster, Num(n), P2, Fill(n, 0), Undef) : n \in {7, 8, 16, 33, 64}}
    \cup {Body(Sudd, Lobster, z, P2, Fill(32, 0), Undef) :
            z \in {Undef, Half(65), Str(<<"3", "2">>)}}
    \cup {Art(p, Fill(32, 0), Undef) :
            p \in {Undef, Arr(<<>>), Arr(<<Black, NotHex>>), Arr([i \in 1..257 |-> Black])}}
    \cup {Art(P2, g, Undef) :
            g \in {Undef, Fill(31, 0), Poke(32, 32, 32, Num(2)), Poke(32, 1, 1, Half(1)),
                   Poke(32, 7, 9, Num(-1)),
                   Arr([y \in 1..32 |-> FillRow(IF y = 5 THEN 33 ELSE 32, 0)])}}
    \cup {Art(Arr(<<NotHex>>), Fill(32, 0), Uuid(1)), Art(P2, Fill(31, 0), Uuid(1)),
          Body(Undef, Lobster, Num(32), P2, Fill(32, 1), Uuid(1)),
          Body(Sudd, Lobster, Num(8), P2, Fill(8, 1), Uuid(1))}

Bodies == SeedBodies \cup RemixBodies \cup BadBodies

\* ---------------------------------------------------------------- Spec
\* The create handler, one request at a time, its body drawn from Bodies.
Init ==
  /\ art = <<>>
  /\ reqs = [s \in Slots |-> Idle]
  /\ served = <<>>
  /\ call = NoCall
  /\ proc = Ready

Next ==
  \/ \E b \in Bodies : CreateValidate("c1", b)
  \/ CreateLookup("c1")
  \/ CreateInsert("c1")
  \/ Release("c1")

Spec == Init /\ [][Next]_vars

\* ------------------------------------------------------ SpecConcurrent
\* Two create requests in flight at once.
ConcurrentBodies ==
  {Art(P2, Fill(32, 0), Undef), Art(PNested, Fill(32, 512), Undef),
   Art(P2, Fill(32, 1), Uuid(1)), Art(P2, Fill(32, 513), Uuid(1)),
   Art(PNested, Fill(32, 512), Uuid(1)), Art(P2, Fill(32, 1), Uuid(99))}

NextConcurrent ==
  \/ \E s \in CreateSlots, b \in ConcurrentBodies : CreateValidate(s, b)
  \/ \E s \in CreateSlots : CreateLookup(s)
  \/ \E s \in CreateSlots : CreateInsert(s)
  \/ \E s \in CreateSlots : Release(s)

SpecConcurrent == Init /\ [][NextConcurrent]_vars

\* ----------------------------------------------------------- SpecViews
\* Artworks are created one at a time and viewed by two requests at once.
\* v1 serves GET /api/art/:id and v2 serves GET /art/:id; the two handlers send
\* the same queries in the same order.
ViewedBodies == {Art(P2, Fill(32, 0), Undef), Art(P2, Fill(32, 1), Uuid(1))}

ViewedIds == {Uuid(1), Uuid(2), Uuid(99)}

NextViews ==
  \/ \E b \in ViewedBodies : CreateValidate("c1", b)
  \/ CreateLookup("c1")
  \/ CreateInsert("c1")
  \/ Release("c1")
  \/ \E id \in ViewedIds : ViewSelect("v1", "json", id)
  \/ \E id \in ViewedIds : ViewSelect("v2", "html", id)
  \/ \E s \in ViewSlots : ViewUpdate(s)
  \/ \E s \in ViewSlots : ViewOrig(s)
  \/ \E s \in ViewSlots : ViewRemixes(s)
  \/ \E s \in ViewSlots : Release(s)

SpecViews == Init /\ [][NextViews]_vars

\* ------------------------------------------------------------ C3, C4
\* The create requests that ran the diff loop.
Compared == {s \in CreateSlots : reqs[s].op = "create" /\ reqs[s].out.compared}

\* The stored row a create request names as its remix parent.
ParentOf(b) == SelectById(b.remix_of)[1]

\* The cells of the n x n grid whose looked-up colour in (palette, pixels) is
\* another value than in (originalPalette, originalPixels).
DifferingCells(originalPalette, originalPixels, palette, pixels, n) ==
  {c \in (1..n) \X (1..n) :
     ResolvedColor(originalPalette, originalPixels, c[1], c[2])
       # ResolvedColor(palette, pixels, c[1], c[2])}

\* C3: for a remix submission changedPixels is the number of cells whose
\* resolved colour in the new artwork differs from the parent's, and
\* maxChanges is floor(size * size * 0.5).
C3_ChangedCountIsColorDiff ==
  \A s \in Compared :
    LET b == reqs[s].body
        n == b.size.v \div 2
        parent == ParentOf(b)
    IN /\ reqs[s].out.changed
            = Cardinality(DifferingCells(parent.palette, parent.pixels, b.palette, b.pixels, n))
       /\ reqs[s].out.max = (n * n) \div 2

\* A create request is rejected when it has been answered with status 400.
Rejected(s) == reqs[s].pc = "done" /\ reqs[s].status = 400

\* C4: a submission that declares an existing parent and passed the checks of
\* its fields is accepted if and only if 1 <= changedPixels <= maxChanges;
\* above maxChanges and at 0 it is rejected, each with its own error.
C4_AcceptedIffWithinBounds ==
  \A s \in Compared :
    LET changed == reqs[s].out.changed
        max == reqs[s].out.max
    IN /\ ~Rejected(s) <=> (1 <= changed /\ changed <= max)
       /\ changed > max => Rejected(s) /\ reqs[s].error = "Too many pixels changed"
       /\ changed = 0 => Rejected(s) /\ reqs[s].error = "No pixels changed"

\* A remix at the boundary, 512 of 1024 cells changed, has been stored.
C4_Witness ==
  \E s \in Compared :
    /\ reqs[s].out.changed = reqs[s].out.max
    /\ reqs[s].out.max = 512
    /\ reqs[s].status = 201
    /\ \E i \in 1..Len(art) : art[i].id = reqs[s].out.id /\ art[i].remix_of = reqs[s].body.remix_of

\* ---------------------------------------------------------------- C5
NotFound == "Original art not found for remix"

\* C5: the diff loop runs only for a submission that declares a remix
\* parent; a declared parent that is not in the table ends the request with
\* 400 in the step that looked it up, before any comparison, and that step
\* stores nothing.
C5_ComparisonOnlyWithParent ==
  [][\A s \in CreateSlots :
       /\ (reqs'[s].op = "create" /\ reqs'[s].out.compared) => Truthy(reqs'[s].body.remix_of)
       /\ (reqs'[s].op = "create" /\ ~Truthy(reqs'[s].body.remix_of))
            => reqs'[s].error \notin {NotFound, "Too many pixels changed", "No pixels changed"}
       /\ (reqs[s].pc = "lookup" /\ reqs'[s] # reqs[s] /\ SelectById(reqs[s].body.remix_of) = <<>>)
            => /\ reqs'[s].pc = "done" /\ reqs'[s].status = 400 /\ reqs'[s].error = NotFound
               /\ ~reqs'[s].out.compared
               /\ art' = art
       /\ (reqs'[s].op = "create" /\ reqs'[s].error = NotFound)
            => ~reqs'[s].out.compared /\ reqs'[s].status = 400]_vars

\* A remix of an identifier that no row has was refused while a row is stored.
C5_Witness ==
  \E s \in CreateSlots :
    /\ reqs[s].op = "create" /\ reqs[s].pc = "done" /\ reqs[s].error = NotFound
    /\ Truthy(reqs[s].body.remix_of)
    /\ ~reqs[s].out.compared
    /\ Len(art) > 0
    /\ SelectById(reqs[s].body.remix_of) = <<>>

\* ---------------------------------------------------------------- C6
AllowedSizes == {Num(8), Num(16), Num(32), Num(64)}

\* What the checks other than the size check say of a body: the author, the
\* title, the palette, and the grid against the body's own size.
OtherFieldsValid(b) ==
  /\ Truthy(b.author) /\ IsString(b.author) /\ Len(b.author.v) <= 64
  /\ ~Truthy(b.title) \/ (IsString(b.title) /\ Len(b.title.v) <= 128)
  /\ WellFormedPalette(b.palette)
  /\ b.size.t = "num" /\ b.size.v % 2 = 0
  /\ WellFormedGrid(b.pixels, b.size.v \div 2, Length(b.palette))

\* C6: a submission whose other fields are valid passes the size check for
\* each of the sizes 8, 16, 32 and 64, and is refused for every other size.
C6_AllowedSizes ==
  \A s \in CreateSlots :
    (reqs[s].op = "create" /\ OtherFieldsValid(reqs[s].body))
      => (reqs[s].error = "Size must be 32 (32x32 pixels)"
            <=> reqs[s].body.size \notin AllowedSizes)

\* ---------------------------------------------------------------- C7
\* C7: a step of a create request that is not its successful INSERT, so every
\* step of a request that ends in a rejection, leaves the rows of art and all
\* their fields as they were; the step that answers 201 adds one row and
\* changes no other.
C7_RejectionStoresNothing ==
  [][\A s \in CreateSlots :
       (reqs[s].op \in {"idle", "create"} /\ reqs'[s] # reqs[s])
         => IF reqs'[s].pc = "done" /\ reqs'[s].status = 201
            THEN Len(art') = Len(art) + 1 /\ SubSeq(art', 1, Len(art)) = art
            ELSE art' = art]_vars

\* A request refused by the remix policy, with rows stored.
C7_Witness ==
  \E s \in CreateSlots :
    /\ Rejected(s)
    /\ reqs[s].error = "Too many pixels changed"
    /\ reqs[s].out.changed > reqs[s].out.max
    /\ Len(art) > 0
    /\ \A i \in 1..Len(art) : art[i].pixels # JSONRoundTrip(reqs[s].body.pixels)

\* ------------------------------------------------------------ C8, C9
\* C8: every stored artwork has a size in the allowed set, a palette of 1 to
\* 256 colour strings of '#' and 6 hex digits, and a grid of size rows of
\* size entries, each an integer index below the palette length.
C8_StoredArtworksWellFormed ==
  \A i \in 1..Len(art) :
    /\ art[i].size \in AllowedSizes
    /\ WellFormedPalette(art[i].palette)
    /\ WellFormedGrid(art[i].pixels, art[i].size.v \div 2, Length(art[i].palette))

\* C9: every stored artwork whose remix_of is set names a stored artwork, and
\* the cells whose resolved colour differs from that parent number at least
\* 1 and at most floor(size * size * 0.5).
C9_StoredRemixWithinBounds ==
  \A i \in 1..Len(art) :
    art[i].remix_of # Null =>
      /\ SelectById(art[i].remix_of) # <<>>
      /\ LET parent == SelectById(art[i].remix_of)[1]
             n == art[i].size.v \div 2
             differing == Cardinality(DifferingCells(parent.palette, parent.pixels,
                                                     art[i].palette, art[i].pixels, n))
         IN 1 <= differing /\ differing <= (n * n) \div 2

\* --------------------------------------------------------------- C10
\* The view requests that have sent their UPDATE of row i and not answered yet.
Counting(i) ==
  {s \in ViewSlots : reqs[s].pc \in {"orig", "remixes"} /\ reqs[s].body.id = art[i].id}

\* C10: whatever the interleaving of view requests of both kinds, the views
\* of a row are the requests on it answered with success plus those whose
\* UPDATE has executed and whose answer is still to come; when none is in
\* flight the counter has grown by one per successful fetch.
C10_NoLostIncrement ==
  \A i \in 1..Len(art) : art[i].views = served[i] + Cardinality(Counting(i))

\* Two view requests, one of each kind, read the same row at views = 0
\* before either UPDATE ran, both answered "1 view", and the row holds 2.
C10_Witness ==
  /\ reqs["v1"].pc = "done" /\ reqs["v1"].status = 200
  /\ reqs["v2"].pc = "done" /\ reqs["v2"].status = 200
  /\ reqs["v1"].body.kind = "json" /\ reqs["v2"].body.kind = "html"
  /\ reqs["v1"].body.id = reqs["v2"].body.id
  /\ reqs["v1"].row.views = 0 /\ reqs["v2"].row.views = 0
  /\ reqs["v1"].out.views = 1 /\ reqs["v2"].out.views = 1
  /\ \E i \in 1..Len(art) : art[i].id = reqs["v1"].body.id /\ art[i].views = 2 /\ served[i] = 2

\* ------------------------------------------------- ASCII and SVG renderings
NaN == [t |-> "nan", v |-> 0]

\* x.slice(a, b) of a string or of an array: the elements from index a up to,
\* not including, index b (both counted from 0, b past the end is the end).
Slice(x, a, b) ==
  LET last == IF b < Length(x) THEN b ELSE Length(x)
  IN IF x.t = "str" THEN Str(SubSeq(x.v, a + 1, last))
     ELSE Arr([i \in 1..(IF last > a THEN last - a ELSE 0) |-> At(x, a + i)])

\* The value of a character as a digit, 99 when it is not one.
DigitValue(c) ==
  CASE c \in {"0", "1", "2", "3", "4", "5", "6", "7", "8", "9"} ->
         CHOOSE d \in 0..9 : DigitChar(d) = c
    [] c \in {"a", "A"} -> 10
    [] c \in {"b", "B"} -> 11
    [] c \in {"c", "C"} -> 12
    [] c \in {"d", "D"} -> 13
    [] c \in {"e", "E"} -> 14
    [] c \in {"f", "F"} -> 15
    [] OTHER -> 99

RECURSIVE ParseDigits(_, _, _, _)
\* The number read from the digits of cs in the radix from position i on,
\* acc so far, stopping at the first character that is not a digit.
ParseDigits(cs, i, radix, acc) ==
  IF i > Len(cs) \/ DigitValue(cs[i]) >= radix THEN acc
  ELSE ParseDigits(cs, i + 1, radix, acc * radix + DigitValue(cs[i]))

\* parseInt(x, radix): ToString of x, an optional sign, then the longest run
\* of digits; NaN when there is no digit.
ParseInt(x, radix) ==
  LET cs == JSToString(x)
      signed == Len(cs) > 0 /\ cs[1] \in {"-", "+"}
      first == IF signed THEN 2 ELSE 1
      n == ParseDigits(cs, first, radix, 0)
  IN IF first > Len(cs) \/ DigitValue(cs[first]) >= radix THEN NaN
     ELSE Num(IF signed /\ cs[1] = "-" THEN -n ELSE n)

Chars_ == <<" ", ".", ":", "-", "=", "+", "*", "#", "%", "@">>

\* (r + g + b) of the palette.map callback, NaN when a channel is NaN. The
\* brightness is this sum over 3 * 255.
ChannelSum(hex) ==
  LET r == ParseInt(Slice(hex, 1, 3), 16)
      g == ParseInt(Slice(hex, 3, 5), 16)
      b == ParseInt(Slice(hex, 5, 7), 16)
  IN IF r = NaN \/ g = NaN \/ b = NaN THEN NaN ELSE Num((r.v + g.v + b.v) \div 2)

\* chars[Math.floor(brightness[p] * (chars.length - 1))] as join('') takes it:
\* the ramp character, or nothing for chars[NaN], which is undefined. For each
\* of the sums 0..765 the double (sum / 765) * 9 has the floor of 9 * sum / 765.
RampChar(sum) ==
  IF sum = NaN THEN <<>> ELSE <<Chars_[((sum.v \div 2) * (Len(Chars_) - 1)) \div 765 + 1]>>

RECURSIVE AsciiLine(_, _, _)
\* row.map(p => chars[...]).join('') from entry x on.
AsciiLine(brightness, row, x) ==
  IF x > Length(row) THEN <<>>
  ELSE RampChar(brightness[(At(row, x).v \div 2) + 1]) \o AsciiLine(brightness, row, x + 1)

RECURSIVE AsciiFrom(_, _, _)
\* pixels.map(...).join('\n') from row y on.
AsciiFrom(brightness, pixels, y) ==
  IF y > Length(pixels) THEN <<>>
  ELSE (IF y > 1 THEN <<"\n">> ELSE <<>>)
       \o AsciiLine(brightness, At(pixels, y), 1)
       \o AsciiFrom(brightness, pixels, y + 1)

\* The text GET /api/art/:id/ascii sends for a row of the table.
Ascii(row) ==
  LET brightness == [i \in 1..Length(row.palette) |-> ChannelSum(At(row.palette, i))]
  IN AsciiFrom(brightness, row.pixels, 1)

\* Math.max(1, Math.floor(512 / size))
Scale(size) == IF 512 \div size > 1 THEN 512 \div size ELSE 1

CanvasSize(size) == size * Scale(size)

\* Rect with its sides one unit too long.
Rect_Wide(x, y, scale, color) ==
  [x |-> x * scale, y |-> y * scale, width |-> scale + 1, height |-> scale + 1,
   fill |-> JSToString(color)]

\* <rect x="${x * scale}" y="${y * scale}" width="${scale}" height="${scale}"
\* fill="${color}"/> for the pixel at column x, row y (from 0): the attributes,
\* numbers as numbers, fill as the text the template literal makes of color.
Rect(x, y, scale, color) ==
  [x |-> x * scale, y |-> y * scale, width |-> scale, height |-> scale,
   fill |-> JSToString(color)]

\* The rectangles emitted column by column.
Rects_ColumnMajor(size, palette, pixels) ==
  [k \in 1..(size * size) |->
     LET x == (k - 1) \div size
         y == (k - 1) % size
     IN Rect(x, y, Scale(size), ResolvedColor(palette, pixels, y + 1, x + 1))]

\* rects after the two loops: for y, for x, in the order they are appended.
Rects(size, palette, pixels) ==
  [k \in 1..(size * size) |->
     LET y == (k - 1) \div size
         x == (k - 1) % size
     IN Rect(x, y, Scale(size), ResolvedColor(palette, pixels, y + 1, x + 1))]

\* The document GET /art/:id/image sends for a row: width and height of the
\* svg element, its viewBox, and the rectangles in it.
Svg(row) ==
  LET size == row.size.v \div 2
  IN [width |-> CanvasSize(size), height |-> CanvasSize(size),
      viewBox |-> <<0, 0, CanvasSize(size), CanvasSize(size)>>,
      rects |-> Rects(size, row.palette, row.pixels)]

\* ------------------------------------- GET /api/art/:id/ascii, /art/:id/image
\* AsciiFetch with the UPDATE of views the JSON and HTML handlers run.
AsciiFetch_Counting(s, id) ==
  /\ reqs[s].pc = "idle"
  /\ LET r == [Idle EXCEPT !.op = "ascii", !.body = [id |-> id]]
         result == SelectById(id)
     IN /\ reqs' = [reqs EXCEPT ![s] =
             IF Len(result) = 0 THEN Reject(r, 404, "Art not found")
             ELSE [r EXCEPT !.pc = "done", !.status = 200, !.out.body = Str(Ascii(result[1]))]]
        /\ art' = UpdateViews(id, Null)
  /\ UNCHANGED <<served, call, proc>>

\* The SELECT of the row answers and the handler sends the rendering, or 404.
AsciiFetch(s, id) ==
  /\ reqs[s].pc = "idle"
  /\ LET r == [Idle EXCEPT !.op = "ascii", !.body = [id |-> id]]
         result == SelectById(id)
     IN reqs' = [reqs EXCEPT ![s] =
          IF Len(result) = 0 THEN Reject(r, 404, "Art not found")
          ELSE [r EXCEPT !.pc = "done", !.status = 200, !.out.body = Str(Ascii(result[1]))]]
  /\ UNCHANGED <<art, served, call, proc>>

SvgFetch(s, id) ==
  /\ reqs[s].pc = "idle"
  /\ LET r == [Idle EXCEPT !.op = "svg", !.body = [id |-> id]]
         result == SelectById(id)
     IN reqs' = [reqs EXCEPT ![s] =
          IF Len(result) = 0 THEN Reject(r, 404, "Art not found")
          ELSE [r EXCEPT !.pc = "done", !.status = 200, !.out.body = Svg(result[1])]]
  /\ UNCHANGED <<art, served, call, proc>>

\* ------------------------------------------------------- GET /api/art
\* a || b on the results of parseInt: NaN and 0 are falsy.
OrElse(a, b) == IF a = NaN \/ a = Num(0) THEN b ELSE a

\* Math.min(parseInt(req.query.limit) || 50, 100). (The parameters tried have
\* no leading blanks and no 0x prefix, which parseInt would also accept.)
Limit(limit) ==
  LET n == OrElse(ParseInt(limit, 10), Num(50)).v \div 2
  IN IF n < 100 THEN n ELSE 100

\* parseInt(req.query.offset) || 0
Offset(offset) == OrElse(ParseInt(offset, 10), Num(0)).v \div 2

\* SELECT * FROM art [WHERE author = $1] ORDER BY created_at DESC LIMIT l
\* OFFSET o, for l >= 0 and o >= 0.
SelectPage(author, l, o) ==
  LET found == Reverse(IF Truthy(author) THEN SelectSeq(art, LAMBDA r : r.author = author)
                       ELSE art)
      last == IF o + l < Len(found) THEN o + l ELSE Len(found)
  IN SubSeq(found, o + 1, last)

\* The handler up to its first query. PostgreSQL refuses a negative LIMIT or
\* OFFSET with an error, which the catch answers with 500.
ListSelect(s, q) ==
  /\ reqs[s].pc = "idle"
  /\ LET r == [Idle EXCEPT !.op = "list",
                           !.body = [query |-> q, limit |-> Limit(q.limit),
                                     offset |-> Offset(q.offset)]]
         limit == Limit(q.limit)
         offset == Offset(q.offset)
     IN reqs' = [reqs EXCEPT ![s] =
          IF limit < 0 \/ offset < 0 THEN Reject(r, 500, "Database error")
          ELSE [r EXCEPT !.pc = "count",
                         !.row = [i \in 1..Len(SelectPage(q.author, limit, offset)) |->
                                    RowRead(SelectPage(q.author, limit, offset)[i])]]]
  /\ UNCHANGED <<art, served, call, proc>>

\* SELECT COUNT(*) as count FROM art answers; the response is sent.
ListCount(s) ==
  /\ reqs[s].pc = "count"
  /\ reqs' = [reqs EXCEPT ![s].pc = "done", ![s].status = 200,
                          ![s].out.body = [count |-> Len(reqs[s].row), total |-> Len(art),
                                           art |-> reqs[s].row]]
  /\ UNCHANGED <<art, served, call, proc>>

\* ----------------------------------------------------------- SpecReads
\* Every operation on the art table, one request at a time on slot r1.
PShades ==
  Arr(<<Str(<<"#", "1", "c", "1", "c", "1", "d">>), Str(<<"#", "A", "A", "a", "a", "A", "A">>)>>)

ReadBodies ==
  {Art(P2, Fill(32, 1), Undef), Art(PShades, Fill(32, 512), Undef),
   Art(PNested, Fill(32, 512), Undef), Art(PLower, Fill(32, 2), Uuid(1))}

ReadIds == {Uuid(1), Uuid(2), Uuid(99)}

\* req.query of the list requests: limit, offset and author as they arrive.
Query(limit, offset, author) == [limit |-> limit, offset |-> offset, author |-> author]

ListQueries ==
  {Query(l, Undef, Undef) :
     l \in {Undef, Str(<<>>), Str(<<"0">>), Str(<<"1">>), Str(<<"1", "0", "0">>),
            Str(<<"1", "0", "1">>), Str(<<"a", "b", "c">>), Str(<<"-", "5">>),
            Str(<<"1", ".", "9">>), Arr(<<Str(<<"2">>), Str(<<"7">>)>>)}}
    \cup {Query(Str(<<"1">>), Str(<<"1">>), Sudd), Query(Undef, Str(<<"-", "1">>), Lobster)}

NextReads ==
  \/ \E b \in ReadBodies : CreateValidate("r1", b)
  \/ CreateLookup("r1")
  \/ CreateInsert("r1")
  \/ \E kind \in {"json", "html"}, id \in ReadIds : ViewSelect("r1", kind, id)
  \/ ViewUpdate("r1")
  \/ ViewOrig("r1")
  \/ ViewRemixes("r1")
  \/ \E id \in ReadIds : AsciiFetch("r1", id)
  \/ \E id \in ReadIds : SvgFetch("r1", id)
  \/ \E q \in ListQueries : ListSelect("r1", q)
  \/ ListCount("r1")
  \/ Release("r1")

SpecReads == Init /\ [][NextReads]_vars

\* --------------------------------------------------------------- C11
\* C11: no step of any operation removes a row of art or changes a row's id,
\* author, title, size, palette, pixels, created_at or remix_of; views is the
\* only field that changes, and it never decreases.
C11_ArtworkImmutable ==
  [][/\ Len(art') >= Len(art)
     /\ \A i \in 1..Len(art) :
          /\ art'[i] = [art[i] EXCEPT !.views = art'[i].views]
          /\ art'[i].views >= art[i].views]_vars

\* A row that has been viewed, listed or rendered since, with a row stored
\* after it.
C11_Witness ==
  /\ Len(art) >= 2
  /\ art[1].views >= 1
  /\ art[2].remix_of = art[1].id
  /\ reqs["r1"].op \in {"list", "ascii", "svg"} /\ reqs["r1"].status = 200

\* --------------------------------------------------------------- C12
\* C12: every step of a GET /api/art/:id/ascii or GET /art/:id/image request
\* leaves table art as it was, the views of the fetched row included.
C12_RenderingsReadOnly ==
  [][\A s \in ReadSlots :
       (reqs'[s] # reqs[s] /\ (reqs[s].op \in {"ascii", "svg"} \/ reqs'[s].op \in {"ascii", "svg"}))
         => art' = art]_vars

\* A row viewed once has been rendered as SVG; its counter still says 1.
C12_Witness ==
  \E s \in ReadSlots :
    /\ reqs[s].op = "svg" /\ reqs[s].pc = "done" /\ reqs[s].status = 200
    /\ \E i \in 1..Len(art) : art[i].id = reqs[s].body.id /\ art[i].views = 1 /\ served[i] = 1

\* --------------------------------------------------------------- C13
Ramp == <<" ", ".", ":", "-", "=", "+", "*", "#", "%", "@">>

\* The value of the two hex digits of colour string c at positions i, i + 1.
Channel(c, i) == 16 * DigitValue(c.v[i]) + DigitValue(c.v[i + 1])

\* floor(b * 9) for b = (R + G + B) / (3 * 255) of colour string c.
RampIndex(c) == (9 * (Channel(c, 2) + Channel(c, 4) + Channel(c, 6))) \div (3 * 255)

\* The ASCII and SVG requests answered with a rendering, and the row rendered.
Rendered(op) == {s \in ReadSlots : reqs[s].op = op /\ reqs[s].pc = "done" /\ reqs[s].status = 200}
RowOf(s) == SelectById(reqs[s].body.id)[1]

\* C13: the ASCII rendering of a stored artwork is size lines of size
\* characters, and the character at line y, column x is ramp[floor(b * 9)]
\* for the brightness b of the pixel's resolved colour, an index in 0..9.
C13_AsciiShape ==
  \A s \in Rendered("ascii") :
    LET row == RowOf(s)
        n == row.size.v \div 2
        text == reqs[s].out.body.v
    IN /\ Len(text) = n * n + (n - 1)
       /\ \A k \in 1..Len(text) : (text[k] = "\n") <=> (k % (n + 1) = 0)
       /\ \A y \in 1..n : \A x \in 1..n :
            LET c == ResolvedColor(row.palette, row.pixels, y, x)
            IN /\ IsColorString(c)
               /\ RampIndex(c) \in 0..9
               /\ text[(y - 1) * (n + 1) + x] = Ramp[RampIndex(c) + 1]

\* --------------------------------------------------------------- C14
\* How a resolved colour reads as the text of a fill attribute: a colour
\* string as itself.
FillText(c) == IF IsString(c) THEN c.v ELSE JSToString(c)

\* C14: the SVG rendering of a stored artwork has size * size rectangles,
\* scale max(1, floor(512 / size)), a square canvas of side size * scale, and
\* the rectangle of pixel (x, y) at (x * scale, y * scale) with side scale and
\* the pixel's resolved colour as fill, rows from the top, columns from the
\* left within a row.
C14_SvgShape ==
  \A s \in Rendered("svg") :
    LET row == RowOf(s)
        n == row.size.v \div 2
        svg == reqs[s].out.body
        scale == IF 512 \div n >= 1 THEN 512 \div n ELSE 1
    IN /\ Len(svg.rects) = n * n
       /\ svg.width = n * scale /\ svg.height = n * scale
       /\ svg.viewBox = <<0, 0, n * scale, n * scale>>
       /\ n = 32 => scale = 16 /\ svg.width = 512
       /\ \A y \in 0..(n - 1) : \A x \in 0..(n - 1) :
            LET rect == svg.rects[y * n + x + 1]
            IN /\ rect.x = x * scale /\ rect.y = y * scale
               /\ rect.width = scale /\ rect.height = scale
               /\ rect.fill = FillText(ResolvedColor(row.palette, row.pixels, y + 1, x + 1))

\* The SVG of a stored 32 x 32 artwork whose grid is not its own transpose:
\* the second rectangle, one to the right of the first, has another fill than
\* the 33rd, one below the first.
C14_Witness ==
  \E s \in Rendered("svg") :
    /\ Len(reqs[s].out.body.rects) = 1024
    /\ reqs[s].out.body.rects[2].x = 16 /\ reqs[s].out.body.rects[2].y = 0
    /\ reqs[s].out.body.rects[33].x = 0 /\ reqs[s].out.body.rects[33].y = 16
    /\ reqs[s].out.body.rects[2].fill # reqs[s].out.body.rects[33].fill

\* ---------------------------------------------------------- SpecLayout
\* The SVG rendering called alone, on rows of every size up to MaxSize.
MaxSize == 64

LayoutRows ==
  {[size |-> Num(n), palette |-> P2, pixels |-> Uniform(n, n, b)] :
     n \in 1..MaxSize, b \in {Num(0), Num(1)}}

InitLayout ==
  /\ art = <<>>
  /\ reqs = <<>>
  /\ served = <<>>
  /\ proc = Ready
  /\ call \in {[op |-> "svg", args |-> <<row>>, pc |-> "called", ret |-> FALSE] :
                 row \in LayoutRows}

SvgReturn ==
  /\ call.op = "svg" /\ call.pc = "called"
  /\ call' = [call EXCEPT !.pc = "returned", !.ret = Svg(call.args[1])]
  /\ UNCHANGED <<art, reqs, served, proc>>

NextLayout == SvgReturn

SpecLayout == InitLayout /\ [][NextLayout]_vars

\* --------------------------------------------------------------- C15
\* The rectangles of rects whose horizontal extent holds column u of unit
\* cells, and those whose vertical extent holds row v.
CoverX(rects, u) == {k \in 1..Len(rects) : rects[k].x <= u /\ u < rects[k].x + rects[k].width}
CoverY(rects, v) == {k \in 1..Len(rects) : rects[k].y <= v /\ v < rects[k].y + rects[k].height}

\* Every unit cell (u, v) of the canvas lies in exactly one rectangle (a
\* rectangle holds the cell when it holds its column and its row), and no
\* rectangle reaches past the canvas.
Tiles(rects, canvasSize) ==
  LET cx == [u \in 1..canvasSize |-> CoverX(rects, u - 1)] \o <<>>
      cy == [v \in 1..canvasSize |-> CoverY(rects, v - 1)] \o <<>>
  IN /\ \A k \in 1..Len(rects) :
          /\ rects[k].x >= 0 /\ rects[k].x + rects[k].width <= canvasSize
          /\ rects[k].y >= 0 /\ rects[k].y + rects[k].height <= canvasSize
     /\ \A u \in 1..canvasSize : \A v \in 1..canvasSize :
          Cardinality(cx[u] \cap cy[v]) = 1

\* C15: for each of the canvas sizes 8, 16, 32 and 64 the rectangles of the
\* SVG rendering tile the canvas exactly: no gap, no overlap, nothing outside.
C15_RectanglesTile ==
  (call.op = "svg" /\ call.pc = "returned" /\ call.args[1].size \in AllowedSizes)
    => Tiles(call.ret.rects, call.ret.width)

\* The rendering of a 64 x 64 row: 4096 rectangles of side 8 on a canvas of 512.
C15_Witness ==
  /\ call.op = "svg" /\ call.pc = "returned"
  /\ call.args[1].size = Num(64)
  /\ Len(call.ret.rects) = 4096 /\ call.ret.width = 512
  /\ call.ret.rects[4096].x = 504 /\ call.ret.rects[4096].width = 8

\* --------------------------------------------------------------- C16
\* The 24-bit value of colour string c.
ColorValue(c) == 65536 * Channel(c, 2) + 256 * Channel(c, 4) + Channel(c, 6)

\* C16: between palettes of colour strings the remix comparison counts the
\* cells whose resolved colours differ as 24-bit values, so entries that
\* differ only in the case of their hex digits are the same colour and a
\* submission that only changes that case has changedPixels = 0.
C16_ColorsCompareAsValues ==
  \A s \in Compared :
    LET b == reqs[s].body
        n == b.size.v \div 2
        parent == ParentOf(b)
    IN (WellFormedPalette(b.palette) /\ WellFormedPalette(parent.palette)) =>
         reqs[s].out.changed =
           Cardinality({c \in (1..n) \X (1..n) :
                          ColorValue(ResolvedColor(parent.palette, parent.pixels, c[1], c[2]))
                            # ColorValue(ResolvedColor(b.palette, b.pixels, c[1], c[2]))})

\* --------------------------------------------------------------- C17
\* C17: the views in the body of a successful GET /api/art/:id response are
\* the views the row held right after that request's own UPDATE, whatever
\* the interleaving with other view requests on the row.
C17_ReturnedViewsAreStored ==
  \A s \in ViewSlots :
    (reqs[s].op = "view" /\ reqs[s].body.kind = "json"
       /\ reqs[s].pc = "done" /\ reqs[s].status = 200)
      => reqs[s].out.views = reqs[s].out.stored

\* ------------------------------------------------------------ SpecBoot
\* The process from the moment the module is loaded: the startup call of
\* ensureDB (outside production), and two requests at a time walking the
\* stack of express, in which every route is registered before the
\* middleware that calls ensureDB. In production the platform hands requests
\* to the exported app; otherwise they arrive once app.listen has run.
BootSlots == {"b1", "b2"}

\* The routes whose handler queries table art, and a path no route matches.
ArtRoutes == {"list", "fetch", "create", "ascii", "svg", "page", "remix"}
Paths == ArtRoutes \cup {"unmatched"}

\* passed: the request went through the ensureDB middleware. ready:
\* dbInitialized when the handler sent its first query.
BootIdle == [route |-> "none", pc |-> "idle", passed |-> FALSE, ready |-> FALSE, status |-> 0]

InitBoot ==
  /\ art = <<>>
  /\ served = <<>>
  /\ call = NoCall
  /\ reqs = [s \in BootSlots |-> BootIdle]
  /\ proc \in {[mode |-> m, dbInitialized |-> FALSE, table |-> tb, inits |-> 0,
                listening |-> FALSE,
                startup |-> IF m = "production" THEN "none" ELSE "begin"] :
                 m \in {"development", "production"}, tb \in BOOLEAN}

\* ensureDB() up to its await: the position of the caller and the process
\* after it. With dbInitialized unset, initDB is called.
EnsureDB(p) ==
  IF ~p.dbInitialized THEN <<"initDB", [p EXCEPT !.inits = @ + 1]>>
  ELSE <<"ensured", p>>

\* if (process.env.NODE_ENV !== 'production') ensureDB()...
StartupEnsure ==
  /\ proc.startup = "begin"
  /\ proc' = [EnsureDB(proc)[2] EXCEPT !.startup = EnsureDB(proc)[1]]
  /\ UNCHANGED <<art, reqs, served, call>>

\* initDB of the startup call: CREATE TABLE IF NOT EXISTS art and its indexes.
StartupCreate ==
  /\ proc.startup = "initDB"
  /\ proc' = [proc EXCEPT !.table = TRUE, !.startup = "created"]
  /\ UNCHANGED <<art, reqs, served, call>>

\* initDB returns: dbInitialized = true, then app.listen.
StartupListen ==
  /\ proc.startup \in {"created", "ensured"}
  /\ proc' = [proc EXCEPT !.dbInitialized = TRUE, !.listening = TRUE, !.startup = "done"]
  /\ UNCHANGED <<art, reqs, served, call>>

\* A request walks the stack. A route that matches runs its handler, which
\* sends its first query and never calls next(); a path no route matches
\* reaches the middleware, which calls ensureDB.
Arrive(s, path) ==
  /\ reqs[s].pc = "idle"
  /\ proc.listening \/ proc.mode = "production"
  /\ IF path \in ArtRoutes
     THEN /\ reqs' = [reqs EXCEPT ![s] = [BootIdle EXCEPT !.route = path, !.pc = "query",
                                                          !.ready = proc.dbInitialized]]
          /\ UNCHANGED proc
     ELSE /\ reqs' = [reqs EXCEPT ![s] = [BootIdle EXCEPT !.route = path,
                                                          !.pc = EnsureDB(proc)[1]]]
          /\ proc' = EnsureDB(proc)[2]
  /\ UNCHANGED <<art, served, call>>

\* The first query of a handler answers: rows, or an error without the
\* table, which the handler's catch turns into 500.
QueryAnswer(s) ==
  /\ reqs[s].pc = "query"
  /\ reqs' = [reqs EXCEPT ![s].pc = "done", ![s].status = IF proc.table THEN 200 ELSE 500]
  /\ UNCHANGED <<art, served, call, proc>>

\* initDB called from the middleware creates the table.
MiddlewareCreate(s) ==
  /\ reqs[s].pc = "initDB"
  /\ proc' = [proc EXCEPT !.table = TRUE]
  /\ reqs' = [reqs EXCEPT ![s].pc = "created"]
  /\ UNCHANGED <<art, served, call>>

\* ensureDB resolves in the middleware: dbInitialized = true, next(), and with
\* no layer left express answers 404.
MiddlewareNext(s) ==
  /\ reqs[s].pc \in {"created", "ensured"}
  /\ proc' = [proc EXCEPT !.dbInitialized = TRUE]
  /\ reqs' = [reqs EXCEPT ![s].pc = "done", ![s].passed = TRUE, ![s].status = 404]
  /\ UNCHANGED <<art, served, call>>

BootRelease(s) ==
  /\ reqs[s].pc = "done"
  /\ reqs' = [reqs EXCEPT ![s] = BootIdle]
  /\ UNCHANGED <<art, served, call, proc>>

NextBoot ==
  \/ StartupEnsure
  \/ StartupCreate
  \/ StartupListen
  \/ \E s \in BootSlots, path \in Paths : Arrive(s, path)
  \/ \E s \in BootSlots : QueryAnswer(s)
  \/ \E s \in BootSlots : MiddlewareCreate(s)
  \/ \E s \in BootSlots : MiddlewareNext(s)
  \/ \E s \in BootSlots : BootRelease(s)

SpecBoot == InitBoot /\ [][NextBoot]_vars

\* ---------------------------------------------------------- C18, C19
\* C18: every request whose route handler has sent a query on table art went
\* through the ensureDB middleware first, and initDB had completed when the
\* query was sent, in production as well.
C18_HandlersAfterEnsureDB ==
  \A s \in BootSlots :
    (reqs[s].route \in ArtRoutes /\ reqs[s].pc \in {"query", "done"})
      => reqs[s].passed /\ reqs[s].ready

\* C19: initDB is executed at most once in the life of the process, however
\* many callers of ensureDB there are before the first execution has finished.
C19_InitDBAtMostOnce == proc.inits <= 1

\* --------------------------------------------------------------- C20
\* C20: whatever the limit parameter, the list handler queries with a limit
\* that is an integer from 1 to 100, 50 when the parameter is absent, zero or
\* unparsable; a response holds at most 100 artworks and its count is their
\* number.
C20_LimitWithinBounds ==
  \A s \in ReadSlots :
    reqs[s].op = "list" =>
      /\ reqs[s].body.limit \in 1..100
      /\ (ParseInt(reqs[s].body.query.limit, 10) \in {NaN, Num(0)}) => reqs[s].body.limit = 50
      /\ (reqs[s].pc = "done" /\ reqs[s].status = 200) =>
           /\ Len(reqs[s].out.body.art) <= 100
           /\ reqs[s].out.body.count = Len(reqs[s].out.body.art)

====
